---- MODULE Spec2Model ----
(***************************************************************************)
(* Model of src/main.py: a FastAPI process with one endpoint,              *)
(* POST /api/query.  The module body (lines 23-45) is the start-up         *)
(* sequence; query_jee (lines 113-129) is the request handler, which calls *)
(* query_chroma_collection (55-62) and call_perplexity_api (64-111).       *)
(*                                                                         *)
(* Texts are sequences of tokens (a token is a character or a literal      *)
(* chunk of a message); a Python value is a record [t, s] whose t is the   *)
(* Python type and whose s is the text of a str.                           *)
(***************************************************************************)
EXTENDS Integers, Sequences, FiniteSets, TLC

\* ------------------------------------------------------------- bounds

\* Number of requests that can be in flight at the same time.
NumRequests == 2
\* Longest list of documents the retrieval service returns.
MaxDocs == 2

\* ------------------------------------------------------ python values

NoneV == [t |-> "None", s |-> <<>>]
IntV == [t |-> "int", s |-> <<"42">>]
Str(s) == [t |-> "str", s |-> s]
IsStr(v) == v.t = "str"

\* Python truthiness of None and of a str: `not v`.
Truthy(v) == v.t = "str" /\ v.s # <<>>

Whitespace == {" ", "\n", "\t"}

RECURSIVE LStrip(_)
LStrip(s) ==
  IF s # <<>> /\ Head(s) \in Whitespace THEN LStrip(Tail(s)) ELSE s

RECURSIVE RStrip(_)
RStrip(s) ==
  IF s # <<>> /\ s[Len(s)] \in Whitespace
  THEN RStrip(SubSeq(s, 1, Len(s) - 1))
  ELSE s

\* str.strip(): leading and trailing whitespace removed.
Strip(s) == RStrip(LStrip(s))

\* ------------------------------------------------------------ start-up

EnvNames == {"PERPLEXITY_API_KEY", "CHROMA_CLOUD_API_KEY", "CHROMA_CLOUD_TENANT"}
\* os.getenv gives None for an unset variable, else its text (maybe empty).
EnvValues == {NoneV, Str(<<>>), Str(<<"secret">>)}

CHROMA_DB == <<"Kinematics">>
CHROMA_COLLECTION == <<"Kinematics">>

\* Mutant: the tenant is not checked.
ConfigMissingTenantUnchecked(e) ==
  ~Truthy(e["PERPLEXITY_API_KEY"]) \/ ~Truthy(e["CHROMA_CLOUD_API_KEY"])

\* line 31: not PERPLEXITY_API_KEY or not CHROMA_API_KEY or not CHROMA_TENANT
ConfigMissing(e) ==
  \/ ~Truthy(e["PERPLEXITY_API_KEY"])
  \/ ~Truthy(e["CHROMA_CLOUD_API_KEY"])
  \/ ~Truthy(e["CHROMA_CLOUD_TENANT"])

\* ------------------------------------------------------------- request

DefaultNResults == 3

Query1 == <<"What is projectile motion?">>
Query2 == <<"asdkjhasd">>

\* A JSON body field: absent, a string, or an integer.
Missing == [t |-> "missing", s |-> <<>>, i |-> 0]
JStr(s) == [t |-> "str", s |-> s, i |-> 0]
JInt(i) == [t |-> "int", s |-> <<>>, i |-> i]

PayloadQueries == {Missing, JStr(Query1), JStr(Query2)}
PayloadNResults == {Missing, JStr(<<"abc">>), JInt(-1), JInt(0), JInt(1)}
Payloads == [query : PayloadQueries, n_results : PayloadNResults]

NoRequest == [query |-> <<>>, n_results |-> 0]

\* Mutant: the type of n_results is not checked.
ValidateNoTypeCheck(p) ==
  [ok |-> p.query.t = "str",
   request |-> [query |-> p.query.s,
                n_results |-> IF p.n_results.t = "int" THEN p.n_results.i
                              ELSE DefaultNResults]]

\* QueryRequest (lines 47-49): query is a required str, n_results an int
\* that defaults to 3.  No range is declared for n_results.
Validate(p) ==
  IF p.query.t = "str" /\ p.n_results.t \in {"int", "missing"}
  THEN [ok |-> TRUE,
        request |-> [query |-> p.query.s,
                     n_results |-> IF p.n_results.t = "int" THEN p.n_results.i
                                   ELSE DefaultNResults]]
  ELSE [ok |-> FALSE, request |-> NoRequest]


\* ----------------------------------------------------------- retrieval

\* An exception: str(e) is msg.
Exc(type, msg) == [type |-> type, msg |-> msg]
NoExc == Exc("none", <<>>)

DocA == Str(<<"Doc A">>)
DocB == Str(<<"Doc B">>)
BlankDoc == Str(<<" ">>)
TextDocs == {DocA, DocB, BlankDoc}

RECURSIVE SeqsUpTo(_, _)
SeqsUpTo(S, n) ==
  IF n <= 0 THEN {<<>>}
  ELSE LET shorter == SeqsUpTo(S, n - 1)
       IN shorter \cup {Append(l, x) : l \in {q \in shorter : Len(q) = n - 1}, x \in S}

Min(a, b) == IF a < b THEN a ELSE b

\* The lists of at most m documents the service returns: texts, or, for a
\* stored record that carries no text, None (first or second in the list).
DocLists(m) ==
  SeqsUpTo(TextDocs, m)
  \cup (IF m >= 1 THEN {<<NoneV>>} ELSE {})
  \cup (IF m >= 2 THEN {<<DocA, NoneV>>} ELSE {})

\* What knowledge_collection.query (line 59) can give back: it raises, or
\* returns a dict whose "documents" entry is absent, None, an empty list, or
\* a list holding the (at most n_results) documents matched for the query.
RetrReply(kind, msg, docs) == [kind |-> kind, msg |-> msg, docs |-> docs]
NoRetrReply == RetrReply("unset", <<>>, <<>>)
RetrievalReplies(n) ==
  {RetrReply("raise", <<"chroma: connection refused">>, <<>>),
   RetrReply("nokey", <<>>, <<>>),
   RetrReply("none", <<>>, <<>>),
   RetrReply("empty", <<>>, <<>>)}
  \cup {RetrReply("docs", <<>>, d) : d \in DocLists(Min(n, MaxDocs))}

\* line 61: the literal "\n\n---\n\n"
Separator == <<"\n", "\n", "-", "-", "-", "\n", "\n">>

RECURSIVE Join(_, _)
\* sep.join(docs) for a list of str
Join(sep, docs) ==
  IF docs = <<>> THEN <<>>
  ELSE IF Len(docs) = 1 THEN docs[1].s
  ELSE docs[1].s \o sep \o Join(sep, Tail(docs))

\* Index (from 0) of the first element of docs that is not a str, -1 if none.
FirstNonStr(docs) ==
  IF \A i \in 1..Len(docs) : IsStr(docs[i]) THEN -1
  ELSE (CHOOSE i \in 1..Len(docs) :
          /\ ~IsStr(docs[i])
          /\ \A j \in 1..(i - 1) : IsStr(docs[j])) - 1

Retrieved(exc, docs, context) == [exc |-> exc, docs |-> docs, context |-> context]

\* Mutant: the documents are joined last to first.
CombinedContextReversed(docs) ==
  IF docs = <<>> THEN Retrieved(NoExc, docs, <<>>)
  ELSE IF FirstNonStr(docs) >= 0
  THEN Retrieved(Exc("TypeError", <<"sequence item ", ToString(FirstNonStr(docs)),
                     ": expected str instance, NoneType found">>), <<>>, <<>>)
  ELSE Retrieved(NoExc, docs,
                 Join(Separator, [i \in 1..Len(docs) |-> docs[Len(docs) + 1 - i]]))

\* line 61: "\n\n---\n\n".join(docs) if docs else ""
CombinedContext(docs) ==
  IF docs = <<>> THEN Retrieved(NoExc, docs, <<>>)
  ELSE IF FirstNonStr(docs) >= 0
  THEN Retrieved(Exc("TypeError", <<"sequence item ", ToString(FirstNonStr(docs)),
                     ": expected str instance, NoneType found">>), <<>>, <<>>)
  ELSE Retrieved(NoExc, docs, Join(Separator, docs))

\* query_chroma_collection (lines 55-62) on the reply of line 59:
\* results.get("documents", [[]])[0], then the join.
query_chroma_collection(reply) ==
  CASE reply.kind = "raise" -> Retrieved(Exc("Exception", reply.msg), <<>>, <<>>)
    [] reply.kind = "nokey" -> CombinedContext(<<>>)
    [] reply.kind = "none" ->
         Retrieved(Exc("TypeError", <<"'NoneType' object is not subscriptable">>),
                   <<>>, <<>>)
    [] reply.kind = "empty" ->
         Retrieved(Exc("IndexError", <<"list index out of range">>), <<>>, <<>>)
    [] OTHER -> CombinedContext(reply.docs)

\* ---------------------------------------------------------- generation

AnswerText == <<"<p>A projectile follows a parabola.</p>">>

\* What requests.post (line 106) can give back: it raises, or returns a
\* response with a status code, a raw text and, for a 200, a JSON body that
\* has no "choices", an empty "choices", or a top choice with a content.
GenReply(kind, status, text, body, content) ==
  [kind |-> kind, status |-> status, text |-> text, body |-> body, content |-> content]
NoGenReply == GenReply("unset", 0, <<>>, "unset", NoneV)
GenerationReplies ==
  {GenReply("raise", 0, <<"perplexity: connection timed out">>, "unset", NoneV),
   GenReply("http", 401, <<"{\"error\": \"unauthorized\"}">>, "unset", NoneV),
   GenReply("http", 204, <<>>, "unset", NoneV),
   GenReply("http", 200, <<"{}">>, "nochoices", NoneV),
   GenReply("http", 200, <<"{\"choices\": []}">>, "emptychoices", NoneV),
   GenReply("http", 200, <<"...">>, "content", Str(AnswerText)),
   GenReply("http", 200, <<"...">>, "content", NoneV),
   GenReply("http", 200, <<"...">>, "content", IntV)}

Generated(exc, value) == [exc |-> exc, value |-> value]

\* The prompt of lines 73-93: the template with context and query embedded.
Prompt(query, context) ==
  <<"You are an expert IIT JEE Physics tutor ... Context:<br><br>\n">>
  \o context
  \o <<"<br><br>\n\nUser Question:<br><br>\n">>
  \o query
  \o <<"<br><br>\n\nProvide a clear, structured ... valid HTML.\n">>

\* The request call_perplexity_api sends (lines 68-106).
GenCall(key, query, context) ==
  [url |-> <<"https://api.perplexity.ai/chat/completions">>,
   authorization |-> <<"Bearer ">> \o key,
   model |-> <<"sonar">>,
   query |-> query,
   context |-> context,
   prompt |-> Prompt(query, context)]
NoGenCall ==
  [url |-> <<>>, authorization |-> <<>>, model |-> <<>>, query |-> <<>>,
   context |-> <<>>, prompt |-> <<>>]

\* call_perplexity_api, lines 106-111, on the reply of line 106.
call_perplexity_api(reply) ==
  CASE reply.kind = "raise" -> Generated(Exc("ConnectionError", reply.text), NoneV)
    [] reply.kind = "http" /\ reply.status # 200 ->
         Generated(Exc("Exception",
                       <<"Perplexity API error: ", ToString(reply.status), " ">>
                       \o reply.text), NoneV)
    [] reply.kind = "http" /\ reply.status = 200 /\ reply.body = "nochoices" ->
         Generated(Exc("KeyError", <<"'choices'">>), NoneV)
    [] reply.kind = "http" /\ reply.status = 200 /\ reply.body = "emptychoices" ->
         Generated(Exc("IndexError", <<"list index out of range">>), NoneV)
    [] OTHER -> Generated(NoExc, reply.content)


\* ------------------------------------------------------------ responses

Response(status, thinking, answer, detail) ==
  [status |-> status, thinking |-> thinking, answer |-> answer, detail |-> detail]
NoResponse == Response(0, NoneV, NoneV, <<>>)

CannedAnswer ==
  <<"Sorry, no relevant information found in the knowledge base for your query.">>

\* Mutant: the fields are not validated.
QueryResponseUnvalidated(thinking, answer) ==
  [exc |-> NoExc, resp |-> Response(200, thinking, answer, <<>>)]

\* QueryResponse (lines 51-53): both fields are str; constructing it with
\* another value raises a ValidationError.
QueryResponse(thinking, answer) ==
  IF IsStr(thinking) /\ IsStr(answer)
  THEN [exc |-> NoExc, resp |-> Response(200, thinking, answer, <<>>)]
  ELSE [exc |-> Exc("ValidationError",
                    <<"1 validation error for QueryResponse: answer: ",
                      "Input should be a valid string, got ", answer.t>>),
        resp |-> NoResponse]

\* line 129: HTTPException(status_code=500, detail=f"Internal server error: {e}")
InternalServerError(e) ==
  Response(500, NoneV, NoneV, <<"Internal server error: ">> \o e.msg)

\* The framework's answer to a body that QueryRequest rejects.
Unprocessable == Response(422, NoneV, NoneV, <<"request validation failed">>)

\* --------------------------------------------------------------- state

VARIABLES
  proc,                  \* where the module body (lines 23-45) stands
  env,                   \* the three values read by os.getenv (lines 25-27)
  knowledge_collection,  \* the handle of line 43, <<>> until obtained
  startupError,          \* the RuntimeError that ended start-up, if any
  slot                   \* the requests in flight, one handler each

vars == <<proc, env, knowledge_collection, startupError, slot>>

Requests == 1..NumRequests

RetrCall(op, query_texts, n_results) ==
  [op |-> op, query_texts |-> query_texts, n_results |-> n_results]
NoRetrCall == RetrCall("none", <<>>, 0)

Idle ==
  [pc |-> "idle", payload |-> [query |-> Missing, n_results |-> Missing],
   request |-> NoRequest, retrCall |-> NoRetrCall, docs |-> <<>>,
   context |-> <<>>, genCall |-> NoGenCall, lastRetr |-> NoRetrReply,
   lastGen |-> NoGenReply, resp |-> NoResponse, nRetr |-> 0, nGen |-> 0]

\* The handler returned or raised: its locals are gone, the response stays
\* until it is sent, with the reply the handler consumed last.
Done(s, resp, lastRetr, lastGen) ==
  [Idle EXCEPT !.pc = "done", !.resp = resp, !.lastRetr = lastRetr,
               !.lastGen = lastGen, !.nRetr = s.nRetr, !.nGen = s.nGen]

\* Mutant: the handler also stores the query in the collection.
DispatchStoresQuery(s) ==
  LET v == Validate(s.payload)
  IN IF ~v.ok THEN Done(s, Unprocessable, NoRetrReply, NoGenReply)
     ELSE [s EXCEPT !.pc = "retrieving", !.request = v.request,
             !.retrCall = RetrCall("add", <<v.request.query>>, v.request.n_results),
             !.nRetr = s.nRetr + 1]

\* The framework validates the body against QueryRequest and, if it is
\* valid, runs query_jee up to the call of line 59 (through line 117).
Dispatch(s) ==
  LET v == Validate(s.payload)
  IN IF ~v.ok THEN Done(s, Unprocessable, NoRetrReply, NoGenReply)
     ELSE [s EXCEPT !.pc = "retrieving", !.request = v.request,
             !.retrCall = RetrCall("query", <<v.request.query>>, v.request.n_results),
             !.nRetr = s.nRetr + 1]

\* Mutant: the context is tested with `if not context`, without strip().
AfterRetrievalNoStrip(s, reply, key) ==
  LET r == query_chroma_collection(reply)
  IN IF r.exc # NoExc THEN Done(s, InternalServerError(r.exc), reply, NoGenReply)
     ELSE IF r.context = <<>>
     THEN Done(s, QueryResponse(Str(<<>>), Str(CannedAnswer)).resp, reply, NoGenReply)
     ELSE [s EXCEPT !.pc = "generating", !.retrCall = NoRetrCall,
             !.docs = r.docs, !.context = r.context,
             !.genCall = GenCall(key, s.request.query, r.context),
             !.nGen = s.nGen + 1]

\* Mutant: the canned answer is returned as soon as one document is blank.
AfterRetrievalAnyBlankDoc(s, reply, key) ==
  LET r == query_chroma_collection(reply)
  IN IF r.exc # NoExc THEN Done(s, InternalServerError(r.exc), reply, NoGenReply)
     ELSE IF r.docs = <<>> \/ \E i \in 1..Len(r.docs) : Strip(r.docs[i].s) = <<>>
     THEN Done(s, QueryResponse(Str(<<>>), Str(CannedAnswer)).resp, reply, NoGenReply)
     ELSE [s EXCEPT !.pc = "generating", !.retrCall = NoRetrCall,
             !.docs = r.docs, !.context = r.context,
             !.genCall = GenCall(key, s.request.query, r.context),
             !.nGen = s.nGen + 1]

\* query_jee from the return of line 59 up to the call of line 106, or to
\* its end: lines 60-62, 117-122, 124 and the except of lines 128-129.
AfterRetrieval(s, reply, key) ==
  LET r == query_chroma_collection(reply)
  IN IF r.exc # NoExc THEN Done(s, InternalServerError(r.exc), reply, NoGenReply)
     ELSE IF Strip(r.context) = <<>>
     THEN LET q == QueryResponse(Str(<<>>), Str(CannedAnswer))
          IN Done(s, IF q.exc # NoExc THEN InternalServerError(q.exc) ELSE q.resp,
                  reply, NoGenReply)
     ELSE [s EXCEPT !.pc = "generating", !.retrCall = NoRetrCall,
             !.docs = r.docs, !.context = r.context,
             !.genCall = GenCall(key, s.request.query, r.context),
             !.nGen = s.nGen + 1]

\* Mutant: a failed generation is reported in the answer of a 200.
AfterGenerationErrorAsAnswer(s, reply) ==
  LET g == call_perplexity_api(reply)
  IN IF g.exc # NoExc
     THEN Done(s, Response(200, Str(<<>>), Str(<<"Internal server error: ">> \o g.exc.msg), <<>>),
               NoRetrReply, reply)
     ELSE LET q == QueryResponse(Str(<<>>), g.value)
          IN Done(s, IF q.exc # NoExc THEN InternalServerError(q.exc) ELSE q.resp,
                  NoRetrReply, reply)

\* Mutant: a failed generation call is sent once more.
AfterGenerationRetry(s, reply) ==
  LET g == call_perplexity_api(reply)
  IN IF g.exc # NoExc
     THEN IF s.nGen < 2 THEN [s EXCEPT !.nGen = s.nGen + 1]
          ELSE Done(s, InternalServerError(g.exc), NoRetrReply, reply)
     ELSE LET q == QueryResponse(Str(<<>>), g.value)
          IN Done(s, IF q.exc # NoExc THEN InternalServerError(q.exc) ELSE q.resp,
                  NoRetrReply, reply)

\* query_jee from the return of line 106 to its end: lines 107-111, 124-129.
AfterGeneration(s, reply) ==
  LET g == call_perplexity_api(reply)
  IN IF g.exc # NoExc THEN Done(s, InternalServerError(g.exc), NoRetrReply, reply)
     ELSE LET q == QueryResponse(Str(<<>>), g.value)
          IN Done(s, IF q.exc # NoExc THEN InternalServerError(q.exc) ELSE q.resp,
                  NoRetrReply, reply)

\* -------------------------------------------------------------- actions

Init ==
  /\ proc = "start"
  /\ env = [n \in EnvNames |-> NoneV]
  /\ knowledge_collection = <<>>
  /\ startupError = <<>>
  /\ slot = [r \in Requests |-> Idle]

\* lines 23-27: load_dotenv and the three os.getenv
LoadEnv ==
  /\ proc = "start"
  /\ \E e \in [EnvNames -> EnvValues] : env' = e
  /\ proc' = "loaded"
  /\ UNCHANGED <<knowledge_collection, startupError, slot>>

\* lines 31-32
CheckConfig ==
  /\ proc = "loaded"
  /\ IF ConfigMissing(env)
     THEN /\ proc' = "failed"
          /\ startupError' = <<"One or more required API keys/tenant missing in environment variables.">>
     ELSE /\ proc' = "configured"
          /\ UNCHANGED startupError
  /\ UNCHANGED <<env, knowledge_collection, slot>>

\* lines 35-39: chromadb.CloudClient, which may raise
CreateClient ==
  /\ proc = "configured"
  /\ \E ok \in BOOLEAN :
       IF ok THEN /\ proc' = "client"
                  /\ UNCHANGED startupError
       ELSE /\ proc' = "failed"
            /\ startupError' = <<"chroma: could not connect">>
  /\ UNCHANGED <<env, knowledge_collection, slot>>

\* lines 42-45: client.get_collection, a failure becomes a RuntimeError
GetCollection ==
  /\ proc = "client"
  /\ \E ok \in BOOLEAN :
       IF ok THEN /\ proc' = "serving"
                  /\ knowledge_collection' = CHROMA_COLLECTION
                  /\ UNCHANGED startupError
       ELSE /\ proc' = "failed"
            /\ startupError' = <<"Failed to access ChromaDB collection '">>
                                 \o CHROMA_COLLECTION \o <<"': not found">>
            /\ UNCHANGED knowledge_collection
  /\ UNCHANGED <<env, slot>>

\* A POST /api/query arrives: the route exists once the module is imported.
Receive(r) ==
  /\ proc = "serving"
  /\ slot[r].pc = "idle"
  /\ \E p \in Payloads : slot' = [slot EXCEPT ![r] = [Idle EXCEPT !.pc = "received", !.payload = p]]
  /\ UNCHANGED <<proc, env, knowledge_collection, startupError>>

\* query_jee is a coroutine (line 114) that never awaits: the event loop
\* runs one handler from line 115 to its end before it starts another.
LoopFree == \A r \in Requests : slot[r].pc \notin {"retrieving", "generating"}

Handle(r) ==
  /\ slot[r].pc = "received"
  /\ LoopFree
  /\ slot' = [slot EXCEPT ![r] = Dispatch(slot[r])]
  /\ UNCHANGED <<proc, env, knowledge_collection, startupError>>

RetrievalReturns(r) ==
  /\ slot[r].pc = "retrieving"
  /\ \E reply \in RetrievalReplies(slot[r].retrCall.n_results) :
       slot' = [slot EXCEPT ![r] =
                  AfterRetrieval(slot[r], reply, env["PERPLEXITY_API_KEY"].s)]
  /\ UNCHANGED <<proc, env, knowledge_collection, startupError>>

GenerationReturns(r) ==
  /\ slot[r].pc = "generating"
  /\ \E reply \in GenerationReplies :
       slot' = [slot EXCEPT ![r] = AfterGeneration(slot[r], reply)]
  /\ UNCHANGED <<proc, env, knowledge_collection, startupError>>

\* The response is sent and the request is over.
Deliver(r) ==
  /\ slot[r].pc = "done"
  /\ slot' = [slot EXCEPT ![r] = Idle]
  /\ UNCHANGED <<proc, env, knowledge_collection, startupError>>

Next ==
  \/ LoadEnv
  \/ CheckConfig
  \/ CreateClient
  \/ GetCollection
  \/ \E r \in Requests : Receive(r)
  \/ \E r \in Requests : Handle(r)
  \/ \E r \in Requests : RetrievalReturns(r)
  \/ \E r \in Requests : GenerationReturns(r)
  \/ \E r \in Requests : Deliver(r)

Spec == Init /\ [][Next]_vars


\* ----------------------------------------------------------- properties

IsBlank(text) == \A i \in 1..Len(text) : text[i] \in Whitespace
AllText(docs) == \A i \in 1..Len(docs) : IsStr(docs[i])

\* needle occurs in hay as a contiguous run of tokens.
Contains(hay, needle) ==
  \E i \in 0..(Len(hay) - Len(needle)) :
    \A j \in 1..Len(needle) : hay[i + j] = needle[j]

CannedResponse == Response(200, Str(<<>>), Str(CannedAnswer), <<>>)

\* The retrieval call returned and the context made of its documents is
\* empty or whitespace-only.
RetrievedBlank(reply) ==
  \/ reply.kind = "nokey"
  \/ reply.kind = "docs" /\ AllText(reply.docs) /\ IsBlank(Join(Separator, reply.docs))

GenerationInvoked(s) ==
  s.nGen > 0 \/ s.genCall # NoGenCall \/ s.lastGen # NoGenReply

\* C1: a validated request whose retrieved context is empty or whitespace-only
\* (zero documents included) ends in a 200 with thinking "" and the canned
\* answer, and the generation client is never invoked for it: a request for
\* which it is invoked has a context with a non-whitespace character.
C1_BlankContextCanned ==
  \A r \in Requests :
    LET s == slot[r]
    IN /\ (s.pc = "done" /\ RetrievedBlank(s.lastRetr))
            => (s.resp = CannedResponse /\ ~GenerationInvoked(s))
       /\ GenerationInvoked(s)
            => \/ s.pc = "generating" /\ ~IsBlank(s.context)
               \/ s.pc = "done" /\ s.lastRetr = NoRetrReply

C1_Witness ==
  \E r \in Requests :
    /\ slot[r].pc = "done"
    /\ slot[r].lastRetr = RetrReply("docs", <<>>, <<BlankDoc>>)
    /\ slot[r].resp = CannedResponse

\* C2 as stated: whenever the retrieval call returned one or more documents,
\* whatever their text, the generation client was invoked exactly once.
C2_AnyDocumentsInvokeGeneration ==
  \A r \in Requests :
    LET s == slot[r]
    IN (s.pc = "done" /\ s.lastRetr.kind = "docs" /\ Len(s.lastRetr.docs) >= 1
        /\ AllText(s.lastRetr.docs))
         => s.nGen = 1

\* C2 amended: the generation client is invoked exactly once for a request
\* whose retrieval returned one or more text documents with a non-blank joined
\* context; a request that ended on a list of text documents without a
\* generation call had a single blank document and got the canned answer.
C2_NonBlankDocumentsInvokeGenerationOnce ==
  \A r \in Requests :
    LET s == slot[r]
    IN /\ s.nGen <= 1
       /\ (s.pc = "done" /\ s.lastRetr.kind = "docs" /\ Len(s.lastRetr.docs) >= 1
           /\ AllText(s.lastRetr.docs))
            => /\ IsBlank(Join(Separator, s.lastRetr.docs))
               /\ Len(s.lastRetr.docs) = 1
               /\ s.nGen = 0
               /\ s.resp = CannedResponse
       /\ s.pc = "generating"
            => /\ s.nGen = 1
               /\ Len(s.docs) >= 1 /\ AllText(s.docs)
               /\ ~IsBlank(Join(Separator, s.docs))
       /\ (s.pc = "done" /\ s.lastGen # NoGenReply) => s.nGen = 1

C2_Witness ==
  \E r \in Requests :
    /\ slot[r].pc = "generating"
    /\ slot[r].docs = <<BlankDoc, BlankDoc>>
    /\ slot[r].nGen = 1

\* The separator of the spec's scenario: "\n\n---\n\n" and one space.
ScenarioSeparator == <<"\n", "\n", "-", "-", "-", "\n", "\n", " ">>

\* C3 as stated: the generation client gets the original query and the
\* documents joined, in order, by "\n\n---\n\n " (a space before the next one).
C3_ContextJoinedWithScenarioSeparator ==
  \A r \in Requests :
    LET s == slot[r]
    IN s.pc = "generating"
         => /\ s.genCall.query = s.payload.query.s
            /\ s.genCall.context = Join(ScenarioSeparator, s.docs)

\* C3 amended: the generation client gets the original query unchanged and the
\* documents joined, in the order returned, by exactly "\n\n---\n\n" with no
\* space after it; one document gives its own text.
C3_ContextJoinedInOrder ==
  \A r \in Requests :
    LET s == slot[r]
    IN s.pc = "generating"
         => /\ s.genCall.query = s.payload.query.s
            /\ s.genCall.context = Join(Separator, s.docs)
            /\ s.docs = <<DocA, DocB>>
                 => s.genCall.context
                      = <<"Doc A", "\n", "\n", "-", "-", "-", "\n", "\n", "Doc B">>
            /\ Len(s.docs) = 1 => s.genCall.context = s.docs[1].s
            /\ Contains(s.genCall.prompt, s.genCall.context)
            /\ Contains(s.genCall.prompt, s.payload.query.s)

C3_Witness ==
  \E r \in Requests :
    /\ slot[r].pc = "generating"
    /\ slot[r].payload.query = JStr(Query1)
    /\ slot[r].docs = <<DocA, DocB>>

\* C4: a request whose retrieval call raised, or whose generation call raised,
\* returned a status other than 200, or returned a 200 without a top choice,
\* ends in a 500 whose detail contains the failure's description; for a
\* non-200 status, the status code and the body text.
C4_FailuresGive500 ==
  \A r \in Requests :
    LET s == slot[r]
    IN s.pc = "done"
         => /\ s.lastRetr.kind = "raise"
                 => s.resp.status = 500 /\ Contains(s.resp.detail, s.lastRetr.msg)
            /\ s.lastGen.kind = "raise"
                 => s.resp.status = 500 /\ Contains(s.resp.detail, s.lastGen.text)
            /\ (s.lastGen.kind = "http" /\ s.lastGen.status # 200)
                 => /\ s.resp.status = 500
                    /\ Contains(s.resp.detail, <<ToString(s.lastGen.status)>>)
                    /\ Contains(s.resp.detail, s.lastGen.text)
            /\ (s.lastGen.kind = "http" /\ s.lastGen.status = 200
                /\ s.lastGen.body = "nochoices")
                 => s.resp.status = 500 /\ Contains(s.resp.detail, <<"'choices'">>)
            /\ (s.lastGen.kind = "http" /\ s.lastGen.status = 200
                /\ s.lastGen.body = "emptychoices")
                 => /\ s.resp.status = 500
                    /\ Contains(s.resp.detail, <<"list index out of range">>)

C4_Witness ==
  \E r \in Requests :
    /\ slot[r].pc = "done"
    /\ slot[r].lastGen.kind = "http"
    /\ slot[r].lastGen.status = 401
    /\ slot[r].resp.status = 500

\* C5: a request is accepted, and a remote call is in flight, only when the
\* three values are set (not empty) and the collection handle was obtained;
\* whenever one of them is missing after loading, or start-up failed, no
\* request is in any stage and the process never serves.
C5_StartupGate ==
  LET complete == \A n \in EnvNames : env[n].t = "str" /\ env[n].s # <<>>
  IN /\ (\E r \in Requests : slot[r] # Idle)
          => (proc = "serving" /\ complete /\ knowledge_collection = CHROMA_COLLECTION)
     /\ proc = "serving" => (complete /\ knowledge_collection = CHROMA_COLLECTION)
     /\ (proc \notin {"start", "loaded"} /\ ~complete) => proc = "failed"
     /\ proc = "failed"
          => /\ \A r \in Requests : slot[r] = Idle
             /\ knowledge_collection = <<>>
             /\ startupError # <<>>

C5_Witness ==
  /\ proc = "failed"
  /\ env["PERPLEXITY_API_KEY"] = NoneV
  /\ env["CHROMA_CLOUD_API_KEY"] = Str(<<"secret">>)
  /\ env["CHROMA_CLOUD_TENANT"] = Str(<<"secret">>)

\* The body lacks the query or carries an n_results that is not a number.
Malformed(p) == p.query.t = "missing" \/ p.n_results.t = "str"

NoRemoteCall(s) ==
  /\ s.nRetr = 0 /\ s.nGen = 0
  /\ s.retrCall = NoRetrCall /\ s.genCall = NoGenCall
  /\ s.lastRetr = NoRetrReply /\ s.lastGen = NoGenReply

C6_ValidationState ==
  \A r \in Requests :
    LET s == slot[r]
    IN /\ s.pc \in {"idle", "received"} => NoRemoteCall(s)
       /\ (s.pc = "done" /\ s.resp.status = 422) => NoRemoteCall(s)
       /\ ~NoRemoteCall(s) => s.resp.status # 422
       /\ s.pc \in {"retrieving", "generating"} => ~Malformed(s.payload)

C6_ValidationStep ==
  \A r \in Requests :
    (slot[r].pc = "received" /\ slot'[r] # slot[r])
      => IF Malformed(slot[r].payload)
         THEN /\ slot'[r].pc = "done"
              /\ slot'[r].resp.status = 422
              /\ NoRemoteCall(slot'[r])
         ELSE /\ slot'[r].pc = "retrieving"
              /\ slot'[r].payload = slot[r].payload

\* C6: a malformed body (query missing, n_results not a number) is rejected
\* by the step that validates it, with no retrieval or generation call made
\* for it; a request with a remote call made was validated first.
C6_ValidationFirst == []C6_ValidationState /\ [][C6_ValidationStep]_vars

C6_Witness ==
  \E r \in Requests :
    /\ slot[r].pc = "done"
    /\ slot[r].resp.status = 422
    /\ slot[r].nRetr = 0

\* C7: a validated request that completed has one of three outcomes: a 200
\* whose answer is the text the generation client returned, a 200 with the
\* canned answer, or a 500 with a detail text; every 200 has thinking "" and
\* a text answer, whatever retrieval and generation returned.
C7_ResponseShape ==
  \A r \in Requests :
    LET s == slot[r]
        generated == /\ s.resp.status = 200
                     /\ s.lastGen.kind = "http" /\ s.lastGen.status = 200
                     /\ s.lastGen.body = "content"
                     /\ s.resp.answer = s.lastGen.content
        canned == /\ s.resp.status = 200
                  /\ s.lastGen = NoGenReply
                  /\ s.resp.answer = Str(CannedAnswer)
        failed == /\ s.resp.status = 500
                  /\ s.resp.detail # <<>>
                  /\ s.resp.thinking = NoneV /\ s.resp.answer = NoneV
    IN (s.pc = "done" /\ s.resp.status # 422)
         => /\ generated \/ canned \/ failed
            /\ ~(generated /\ canned) /\ ~(generated /\ failed) /\ ~(canned /\ failed)
            /\ s.resp.status = 200
                 => /\ s.resp.thinking = Str(<<>>)
                    /\ s.resp.answer.t = "str"
                    /\ s.resp.detail = <<>>

C7_Witness ==
  \E r \in Requests :
    /\ slot[r].pc = "done"
    /\ slot[r].lastGen = GenReply("http", 200, <<"...">>, "content", NoneV)
    /\ slot[r].resp.status = 500

\* C8 as stated: the retrieval service is only ever queried with a result
\* count of 1 or more.
C8_RetrievalCountPositive ==
  \A r \in Requests :
    slot[r].retrCall # NoRetrCall => slot[r].retrCall.n_results >= 1

C9_CallState ==
  \A r \in Requests :
    LET s == slot[r]
    IN /\ s.nRetr <= 1 /\ s.nGen <= 1
       /\ s.nGen = 1 => s.nRetr = 1
       /\ ~(s.retrCall # NoRetrCall /\ s.genCall # NoGenCall)
       /\ s.retrCall # NoRetrCall <=> s.pc = "retrieving"
       /\ s.genCall # NoGenCall <=> s.pc = "generating"
       /\ s.pc = "generating" => (s.nGen = 1 /\ ~IsBlank(s.context))
       /\ (s.pc = "done" /\ s.lastRetr # NoRetrReply) => s.nGen = 0

C9_CallStep ==
  \A r \in Requests :
    /\ slot'[r].nGen > slot[r].nGen
         => /\ slot[r].pc = "retrieving" /\ slot'[r].pc = "generating"
            /\ slot'[r].nGen = slot[r].nGen + 1
            /\ slot'[r].nRetr = slot[r].nRetr
    /\ slot'[r].nRetr > slot[r].nRetr
         => /\ slot[r].pc = "received" /\ slot'[r].pc = "retrieving"
            /\ slot'[r].nRetr = 1
    /\ (slot[r].pc = "done" /\ slot'[r] # slot[r]) => slot'[r] = Idle
    /\ (slot[r].pc = "generating" /\ slot'[r] # slot[r]) => slot'[r].pc = "done"

\* C9: one request makes at most one retrieval call and at most one generation
\* call; the generation call is made only by the step that takes the
\* retrieval's successful, non-blank result, never while the retrieval call is
\* in flight; once a call failed and the request is done nothing more is called.
C9_CallOrderNoRetry == []C9_CallState /\ [][C9_CallStep]_vars

C9_Witness ==
  \E r \in Requests :
    /\ slot[r].pc = "done"
    /\ slot[r].lastGen.kind = "raise"
    /\ slot[r].nRetr = 1 /\ slot[r].nGen = 1

C10_IsolationState ==
  /\ \A r \in Requests :
       /\ slot[r].retrCall.op \in {"none", "query"}
       /\ slot[r].pc = "idle" => slot[r] = Idle
       /\ slot[r].pc = "done" => proc = "serving"
  /\ \A r1, r2 \in Requests :
       /\ (slot[r1].pc = "done" /\ slot[r2].pc = "done"
           /\ slot[r1].lastRetr = slot[r2].lastRetr
           /\ slot[r1].lastGen = slot[r2].lastGen)
            => slot[r1].resp = slot[r2].resp
       /\ (slot[r1].pc = slot[r2].pc /\ slot[r1].payload = slot[r2].payload
           /\ slot[r1].docs = slot[r2].docs)
            => (slot[r1].retrCall = slot[r2].retrCall
                /\ slot[r1].genCall = slot[r2].genCall)

C10_IsolationStep ==
  /\ proc = "serving"
       => /\ proc' = "serving"
          /\ env' = env
          /\ knowledge_collection' = knowledge_collection
          /\ startupError' = startupError
  /\ \A r1, r2 \in Requests :
       (r1 # r2 /\ slot'[r1] # slot[r1]) => slot'[r2] = slot[r2]
  /\ \A r \in Requests :
       (slot[r].pc = "done" /\ slot[r].resp.status = 500 /\ slot'[r] # slot[r])
         => slot'[r] = Idle

\* C10: handling a request leaves the credentials and the collection handle
\* unchanged and only ever queries the collection; a step of one request
\* changes no other request; two requests with the same replies get the same
\* response and the same payload and documents give the same calls; after a
\* 500 the process still serves and the slot is as if the request never was.
C10_RequestIsolation == []C10_IsolationState /\ [][C10_IsolationStep]_vars

C10_Witness ==
  \E r1, r2 \in Requests :
    /\ r1 # r2
    /\ slot[r1].pc = "done" /\ slot[r1].resp.status = 500
    /\ slot[r2].pc = "generating"
    /\ proc = "serving"

====
